---- MODULE Spec2Model ----
(***************************************************************************)
(* Fuzzy ART classification engine (oblq/art, fuzzy_art.go).               *)
(*                                                                         *)
(* Real numbers are modelled exactly.  A vector component v in [0,1] is    *)
(* the integer v*Scale; norms are sums of such integers.  Ratios           *)
(* (activation, resonance) and the configuration scalars rho, alpha, beta  *)
(* are rationals <<num, den>> with den > 0 and are compared by cross       *)
(* multiplication.  float64 rounding is not modelled.                      *)
(* Category indices are 0-based as in the source; W[j+1] is category j.    *)
(***************************************************************************)
EXTENDS Integers, Sequences, FiniteSets, TLC

\* ------------------------------------------------------------------ bounds
\* Number of Fit/Predict calls explored on one engine.
MaxCalls == 4

\* Number of consecutive Fit calls explored by the long-run specification.
MaxFits == 6

\* Number of calls explored by the stepwise (goroutine-level) specification.
MaxSchedCalls == 4

\* Number of Fit calls that build the matrix before two callers race on it.
MaxTrain == 2

\* Number of calls explored on a pool-based engine.
MaxPoolCalls == 4

\* ------------------------------------------------------- number encoding
RECURSIVE Pow2(_)
Pow2(n) == IF n = 0 THEN 1 ELSE 2 * Pow2(n - 1)

\* Scale is the integer that stands for 1.0.  Inputs are multiples of 1/10
\* and every reinforcement with beta = 1/2 halves the grid, so Scale keeps
\* every reachable prototype component an integer.
Scale == 10 * Pow2(IF MaxFits > MaxCalls THEN MaxFits ELSE MaxCalls)

Tenths(k) == k * (Scale \div 10)

RatGE(p, q) == p[1] * q[2] >= q[1] * p[2]
RatGT(p, q) == p[1] * q[2] > q[1] * p[2]
RatEq(p, q) == p[1] * q[2] = q[1] * p[2]
RatLT(p, q) == p[1] * q[2] < q[1] * p[2]

Zero == <<0, 1>>
One == <<1, 1>>

\* ------------------------------------------------ inputs of the operations
\* Arguments offered to NewFuzzyART (valid and invalid ones).
InputLens == {-1, 0, 1, 2}
RhoVals == {<<-1, 10>>, <<0, 1>>, <<3, 5>>, <<9, 10>>, <<1, 1>>, <<11, 10>>}
AlphaVals == {<<0, 1>>, <<1, 100>>, <<1, 1>>}
BetaVals == {<<0, 1>>, <<1, 2>>, <<1, 1>>, <<3, 2>>}

\* Feature vectors offered to Fit/Predict: components in [0,1], length m.
Inputs(m) ==
    CASE m = 0 -> {<< >>}
      [] m = 1 -> {<<Tenths(1)>>, <<Tenths(2)>>, <<Tenths(5)>>, <<Tenths(6)>>, <<Tenths(9)>>}
      [] m = 2 -> {<<Tenths(1), Tenths(2)>>, <<Tenths(2), Tenths(1)>>, <<Tenths(9), Tenths(9)>>}
      [] OTHER -> {}

\* ------------------------------------------------------------------- state
VARIABLES
    state,    \* "new" (not constructed), "err" (construction failed), "open", "closed"
    err,      \* construction error: [param, value]
    rho,      \* FuzzyART.rho
    alpha,    \* FuzzyART.alpha
    beta,     \* FuzzyART.beta
    M,        \* FuzzyART.M
    W,        \* FuzzyART.W, the category prototype matrix
    T,        \* FuzzyART.T, the activation records
    last,     \* the last call: its arguments, the matrix before it, its result
    ncalls,   \* number of Fit/Predict calls made
    crashed,  \* a call panicked
    args,     \* the arguments NewFuzzyART was called with
    poolCap,  \* cap(FuzzyART.workerPool)
    batchSize,\* FuzzyART.batchSize
    pc,       \* position of the calling goroutine inside Fit/Predict
    call,     \* the call in progress: [op, a, learn, A]
    jStart,   \* loop variable of the dispatch loop
    tokens,   \* len(FuzzyART.workerPool): worker tokens held
    wgCount,  \* counter of FuzzyART.wg
    workers,  \* the batch goroutines alive
    ref,      \* result of the call in progress when executed without interleaving
    score,    \* scoring of the call in progress: writes per category and per record
    race,     \* two external callers running Fit on the same engine
    pool,     \* sync.Pool of the pool-based engine variants and the call using it
    kern,     \* one call of a vector kernel on one backend: arguments, memory, results
    simd      \* package simd: the host, the binding of Shared, the calls served

\* the variables of the stepwise execution of a call
svars == <<poolCap, batchSize, pc, call, jStart, tokens, wgCount, workers, ref,
           score, race, pool, kern, simd>>

vars == <<state, err, rho, alpha, beta, M, W, T, last, ncalls, crashed, args,
          poolCap, batchSize, pc, call, jStart, tokens, wgCount, workers, ref,
          score, race, pool, kern, simd>>

NoErr == [param |-> "", value |-> Zero]

NoCall == [op |-> "none", a |-> << >>, learn |-> FALSE, A |-> << >>,
           Wpre |-> << >>, outcome |-> "none", resonance |-> Zero,
           categoryIndex |-> -1]

\* ------------------------------------------------------------ vector kernel
\* variant: the larger element is taken
MinTakesLarger(x, y) == IF x <= y THEN y ELSE x

Min(x, y) == IF x <= y THEN x ELSE y

\* generic.FuzzyIntersectionNorm: the loop ranges over A; elements of the
\* output buffer beyond len(A) keep their old value.
FuzzyIntersectionOut(A, w, out) ==
    [i \in 1..Len(out) |-> IF i <= Len(A) THEN Min(A[i], w[i]) ELSE out[i]]

RECURSIVE SumTo(_, _)
SumTo(arr, n) == IF n = 0 THEN 0 ELSE SumTo(arr, n - 1) + arr[n]

\* generic.SumFloat64
SumFloat64(arr) == SumTo(arr, Len(arr))

FuzzyIntersectionNorm(A, w, out) ==
    LET fi == FuzzyIntersectionOut(A, w, out)
    IN  [fi |-> fi, fiNorm |-> SumTo(fi, Len(A)), wNorm |-> SumTo(w, Len(A))]

\* variant: beta and 1-beta exchanged
UpdateFuzzyWeightsSwapped(w, fi, b) ==
    [i \in 1..Len(w) |-> ((b[2] - b[1]) * fi[i] + b[1] * w[i]) \div b[2]]

\* variant: beta is ignored and the prototype moves half of the way
UpdateFuzzyWeightsHalfWay(w, fi, b) ==
    [i \in 1..Len(w) |-> (fi[i] + w[i]) \div 2]

\* generic.UpdateFuzzyWeights: W[i] = beta*fi[i] + (1-beta)*W[i]
UpdateFuzzyWeights(w, fi, b) ==
    [i \in 1..Len(w) |-> (b[1] * fi[i] + (b[2] - b[1]) * w[i]) \div b[2]]

\* ------------------------------------------------------------------ engine
\* variant: the second half repeats the input instead of complementing it
complementCodeNoComplement(a) ==
    [i \in 1..(2 * Len(a)) |-> IF i <= Len(a) THEN a[i] ELSE a[i - Len(a)]]

complementCode(a) ==
    [i \in 1..(2 * Len(a)) |-> IF i <= Len(a) THEN a[i] ELSE Scale - a[i - Len(a)]]

RECURSIVE GCD(_, _)
GCD(x, y) == IF y = 0 THEN x ELSE GCD(y, x % y)

\* u.activation = u.fiNorm / (f.alpha + u.wNorm), as the fraction
\* fiNorm*d / (n*Scale + wNorm*d) for alpha = n/d, reduced by gcd(d, n*Scale)
activationOf(fiNorm, wNorm) ==
    LET g == GCD(alpha[2], alpha[1] * Scale)
    IN  <<fiNorm * (alpha[2] \div g),
          (alpha[1] * Scale) \div g + wNorm * (alpha[2] \div g)>>

\* variant: the record keeps the category index an earlier call left in it
categoryChoiceKeepsIndex(A, u, j) ==
    LET k == FuzzyIntersectionNorm(A, W[j + 1], u.fi)
    IN  [fi |-> k.fi, fiNorm |-> k.fiNorm, wNorm |-> k.wNorm,
         activation |-> activationOf(k.fiNorm, k.wNorm), j |-> u.j, addr |-> u.addr]

\* body of the loop of categoryChoice: scores category j into record u
categoryChoice(A, u, j) ==
    LET k == FuzzyIntersectionNorm(A, W[j + 1], u.fi)
    IN  [fi |-> k.fi, fiNorm |-> k.fiNorm, wNorm |-> k.wNorm,
         activation |-> activationOf(k.fiNorm, k.wNorm), j |-> j, addr |-> u.addr]

\* variant: ascending instead of descending activation
activationCmpAscending(a, b) ==
    IF RatEq(a.activation, b.activation)
    THEN (IF a.j < b.j THEN -1 ELSE 1)
    ELSE IF RatLT(a.activation, b.activation) THEN -1 ELSE 1

\* comparison function handed to slices.SortFunc
activationCmp(a, b) ==
    IF RatEq(a.activation, b.activation)
    THEN (IF a.j < b.j THEN -1 ELSE 1)
    ELSE IF RatGT(a.activation, b.activation) THEN -1 ELSE 1

Swap(s, i, j) == [s EXCEPT ![i] = s[j], ![j] = s[i]]

RECURSIVE SiftLeft(_, _)
SiftLeft(s, j) ==
    IF j > 1 /\ activationCmp(s[j], s[j - 1]) < 0
    THEN SiftLeft(Swap(s, j, j - 1), j - 1)
    ELSE s

RECURSIVE InsertionSortFrom(_, _)
InsertionSortFrom(s, i) ==
    IF i > Len(s) THEN s ELSE InsertionSortFrom(SiftLeft(s, i), i + 1)

\* variant: the second record is never moved in front of the first
sortCategoriesByActivationFromThird(s) == InsertionSortFrom(s, 3)

sortCategoriesByActivation(s) == InsertionSortFrom(s, 2)

\* activateCategories after the barrier: every category j < len(W) has been
\* scored into record T[j], then the records are sorted.
scoredRecords(A) ==
    [k \in 1..Len(T) |-> IF k <= Len(W) THEN categoryChoice(A, T[k], k - 1) ELSE T[k]]

activateCategories(A) == sortCategoriesByActivation(scoredRecords(A))

\* the dispatch loop sends on workerPool once per batch: on a closed engine
\* with at least one category the send panics.
activatePanics == state = "closed" /\ Len(W) > 0

\* the kernel indexes w[i] and fuzzyIntersectionOut[i] for every i in range
\* of A: an input longer than a prototype or than a record's buffer runs
\* out of range and the panic of the batch goroutine ends the program.
kernelPanics(A) ==
    \E k \in 1..Len(W) : Len(A) > Len(W[k]) \/ Len(A) > Len(T[k].fi)

\* variant: the quotient without the test for two zeros
resonanceUnguarded(fiNorm, aNorm) == <<fiNorm, aNorm>>

resonance(fiNorm, aNorm) ==
    IF fiNorm = 0 /\ aNorm = 0 THEN One ELSE <<fiNorm, aNorm>>

\* variant: the running maximum is never raised
mathMaxKeepsFirst(x, y) == x

mathMax(x, y) == IF RatGT(y, x) THEN y ELSE x

\* variant: the intersection buffer is one element too long
NewRecordLonger(n) == [fi |-> [i \in 1..(n + 1) |-> 0], fiNorm |-> 0, wNorm |-> 0,
                       activation |-> Zero, j |-> 0, addr |-> 0]

\* &fuzzyActivation{fi: make([]float64, n)}; addr stands for the identity of
\* the allocated object and is set by the caller
NewRecord(n) == [fi |-> [i \in 1..n |-> 0], fiNorm |-> 0, wNorm |-> 0,
                 activation |-> Zero, j |-> 0, addr |-> 0]

\* variant: the new prototype is put in front, shifting every index
appendNewCategoryPrepends(Wc, Tc, A) ==
    LET W2 == <<A>> \o Wc
    IN  [W |-> W2, T |-> Append(Tc, [NewRecord(Len(W2[1])) EXCEPT !.addr = Len(Tc)]), index |-> Len(W2) - 1]

\* variant: a zeroed buffer is committed instead of the input
appendNewCategoryZeroed(Wc, Tc, A) ==
    LET W2 == Append(Wc, [i \in 1..Len(A) |-> 0])
    IN  [W |-> W2, T |-> Append(Tc, [NewRecord(Len(W2[1])) EXCEPT !.addr = Len(Tc)]), index |-> Len(W2) - 1]

\* variant: the returned index is the new length
appendNewCategoryOffByOne(Wc, Tc, A) ==
    LET W2 == Append(Wc, A)
    IN  [W |-> W2, T |-> Append(Tc, [NewRecord(Len(W2[1])) EXCEPT !.addr = Len(Tc)]), index |-> Len(W2)]

appendNewCategory(Wc, Tc, A) ==
    LET W2 == Append(Wc, A)
    IN  [W |-> W2,
         T |-> Append(Tc, [NewRecord(Len(W2[1])) EXCEPT !.addr = Len(Tc)]),
         index |-> Len(W2) - 1]

\* variant: the vigilance test is strict (resonance > rho)
RECURSIVE vigilanceWalkStrict(_, _, _, _)
vigilanceWalkStrict(Ts, A, k, maxResonance) ==
    IF k > Len(Ts)
    THEN LET n == appendNewCategory(W, Ts, A)
         IN  [W |-> n.W, T |-> n.T, resonance |-> maxResonance,
              categoryIndex |-> n.index, outcome |-> "ok"]
    ELSE LET t == Ts[k]
             r == resonance(t.fiNorm, SumFloat64(A))
         IN  IF RatGT(r, rho)
             THEN [W |-> [W EXCEPT ![t.j + 1] = UpdateFuzzyWeights(W[t.j + 1], t.fi, beta)],
                   T |-> Ts, resonance |-> r, categoryIndex |-> t.j, outcome |-> "ok"]
             ELSE vigilanceWalkStrict(Ts, A, k + 1, mathMax(maxResonance, r))

\* variant: the vigilance test is reversed (rho >= resonance)
RECURSIVE vigilanceWalkReversed(_, _, _, _)
vigilanceWalkReversed(Ts, A, k, maxResonance) ==
    IF k > Len(Ts)
    THEN LET n == appendNewCategory(W, Ts, A)
         IN  [W |-> n.W, T |-> n.T, resonance |-> maxResonance,
              categoryIndex |-> n.index, outcome |-> "ok"]
    ELSE LET t == Ts[k]
             r == resonance(t.fiNorm, SumFloat64(A))
         IN  IF RatGE(rho, r)
             THEN [W |-> [W EXCEPT ![t.j + 1] = UpdateFuzzyWeights(W[t.j + 1], t.fi, beta)],
                   T |-> Ts, resonance |-> r, categoryIndex |-> t.j, outcome |-> "ok"]
             ELSE vigilanceWalkReversed(Ts, A, k + 1, mathMax(maxResonance, r))

RECURSIVE vigilanceWalk(_, _, _, _)
vigilanceWalk(Ts, A, k, maxResonance) ==
    IF k > Len(Ts)
    THEN LET n == appendNewCategory(W, Ts, A)
         IN  [W |-> n.W, T |-> n.T, resonance |-> maxResonance,
              categoryIndex |-> n.index, outcome |-> "ok"]
    ELSE LET t == Ts[k]
             r == resonance(t.fiNorm, SumFloat64(A))
         IN  IF RatGE(r, rho)
             THEN [W |-> [W EXCEPT ![t.j + 1] = UpdateFuzzyWeights(W[t.j + 1], t.fi, beta)],
                   T |-> Ts, resonance |-> r, categoryIndex |-> t.j, outcome |-> "ok"]
             ELSE vigilanceWalk(Ts, A, k + 1, mathMax(maxResonance, r))

\* variant: the walk skips the record with the highest activation
resonateOrResetSkipsFirst(Ts, A) == vigilanceWalk(Ts, A, 2, Zero)

\* resonateOrReset on the sorted records Ts
resonateOrReset(Ts, A) == vigilanceWalk(Ts, A, 1, Zero)

Panic == [W |-> W, T |-> T, resonance |-> Zero, categoryIndex |-> -1, outcome |-> "panic"]

\* result of Fit(a) in the current state
FitResult(a) ==
    LET A == complementCode(a)
    IN  IF activatePanics \/ kernelPanics(A) THEN Panic
        ELSE resonateOrReset(activateCategories(A), A)

\* variant: the learn flag is ignored and the call always learns
PredictAlwaysLearns(a, learn) ==
    LET A == complementCode(a)
    IN  IF activatePanics \/ kernelPanics(A) THEN Panic
        ELSE resonateOrReset(activateCategories(A), A)

\* variant: the learn flag is ignored and the call never learns
PredictNeverLearns(a, learn) ==
    LET A  == complementCode(a)
        Ts == activateCategories(A)
    IN  IF activatePanics \/ kernelPanics(A) THEN Panic
        ELSE IF Len(Ts) = 0
             THEN [Panic EXCEPT !.T = Ts]
             ELSE [W |-> W, T |-> Ts,
                   resonance |-> resonance(Ts[1].fiNorm, SumFloat64(A)),
                   categoryIndex |-> Ts[1].j, outcome |-> "ok"]

\* result of Predict(a, learn) in the current state
PredictResult(a, learn) ==
    LET A  == complementCode(a)
        Ts == activateCategories(A)
    IN  IF activatePanics \/ kernelPanics(A) THEN Panic
        ELSE IF ~learn
             THEN IF Len(Ts) = 0
                  THEN [Panic EXCEPT !.T = Ts]
                  ELSE [W |-> W, T |-> Ts,
                        resonance |-> resonance(Ts[1].fiNorm, SumFloat64(A)),
                        categoryIndex |-> Ts[1].j, outcome |-> "ok"]
             ELSE resonateOrReset(Ts, A)

\* ------------------------------- the engine as a function of its fields
\* The operations above read the fields W and T of the engine.  The same
\* code as a function of a matrix Wc and a record list Tc of an open
\* engine, so that a call can be evaluated on a state other than the
\* present one (a sequential order of two calls, another leftover of T).
categoryChoiceOn(A, u, w, j) ==
    LET k == FuzzyIntersectionNorm(A, w, u.fi)
    IN  [fi |-> k.fi, fiNorm |-> k.fiNorm, wNorm |-> k.wNorm,
         activation |-> activationOf(k.fiNorm, k.wNorm), j |-> j, addr |-> u.addr]

scoredRecordsOn(Wc, Tc, A) ==
    [k \in 1..Len(Tc) |->
        IF k <= Len(Wc) THEN categoryChoiceOn(A, Tc[k], Wc[k], k - 1) ELSE Tc[k]]

activateCategoriesOn(Wc, Tc, A) ==
    sortCategoriesByActivation(scoredRecordsOn(Wc, Tc, A))

kernelPanicsOn(Wc, Tc, A) ==
    \E k \in 1..Len(Wc) : Len(A) > Len(Wc[k]) \/ Len(A) > Len(Tc[k].fi)

RECURSIVE vigilanceWalkOn(_, _, _, _, _)
vigilanceWalkOn(Wc, Ts, A, k, maxResonance) ==
    IF k > Len(Ts)
    THEN LET n == appendNewCategory(Wc, Ts, A)
         IN  [W |-> n.W, T |-> n.T, resonance |-> maxResonance,
              categoryIndex |-> n.index, outcome |-> "ok"]
    ELSE LET t == Ts[k]
             r == resonance(t.fiNorm, SumFloat64(A))
         IN  IF RatGE(r, rho)
             THEN [W |-> [Wc EXCEPT ![t.j + 1] = UpdateFuzzyWeights(Wc[t.j + 1], t.fi, beta)],
                   T |-> Ts, resonance |-> r, categoryIndex |-> t.j, outcome |-> "ok"]
             ELSE vigilanceWalkOn(Wc, Ts, A, k + 1, mathMax(maxResonance, r))

resonateOrResetOn(Wc, Ts, A) == vigilanceWalkOn(Wc, Ts, A, 1, Zero)

PanicOn(Wc, Tc) ==
    [W |-> Wc, T |-> Tc, resonance |-> Zero, categoryIndex |-> -1, outcome |-> "panic"]

\* Fit(a) on an open engine whose fields are Wc and Tc
FitOn(Wc, Tc, a) ==
    LET A == complementCode(a)
    IN  IF kernelPanicsOn(Wc, Tc, A) THEN PanicOn(Wc, Tc)
        ELSE resonateOrResetOn(Wc, activateCategoriesOn(Wc, Tc, A), A)

\* Predict(a, learn) on an open engine whose fields are Wc and Tc
PredictOn(Wc, Tc, a, learn) ==
    LET A  == complementCode(a)
        Ts == activateCategoriesOn(Wc, Tc, A)
    IN  IF kernelPanicsOn(Wc, Tc, A) THEN PanicOn(Wc, Tc)
        ELSE IF ~learn
             THEN IF Len(Ts) = 0
                  THEN PanicOn(Wc, Ts)
                  ELSE [W |-> Wc, T |-> Ts,
                        resonance |-> resonance(Ts[1].fiNorm, SumFloat64(A)),
                        categoryIndex |-> Ts[1].j, outcome |-> "ok"]
             ELSE resonateOrResetOn(Wc, Ts, A)

\* ----------------------------------------------------------------- actions
\* batchSize set by NewFuzzyART
DefaultBatchSize == 64

NoArgs == [inputLen |-> 0, rho |-> Zero, alpha |-> Zero, beta |-> Zero]

NoRef == [W |-> << >>, T |-> << >>, resonance |-> Zero, categoryIndex |-> -1,
          outcome |-> "none"]

\* no scoring in progress
NoScore == [count |-> << >>, writers |-> << >>, W0 |-> << >>]

NoRes == [resonance |-> Zero, categoryIndex |-> -1, outcome |-> "none"]

\* no external caller has started
NoRace == [base |-> [W |-> << >>, T |-> << >>],
           pcs |-> <<"idle", "idle">>,
           a |-> << << >>, << >> >>,
           res |-> <<NoRes, NoRes>>,
           first |-> 0,
           overlap |-> FALSE]

\* an unused buffer pool
NoPool == [pc |-> "idle", op |-> "none", a |-> << >>, learn |-> FALSE,
           out |-> 0, pre |-> 0, got |-> << >>, put |-> << >>, i |-> 0,
           paths |-> {}]

\* no kernel call
NoKern == [phase |-> "none", backend |-> "generic", A |-> << >>, w |-> << >>,
           beta |-> <<1, 1>>, junk |-> 0, out |-> << >>, written |-> {},
           cells |-> 0, fiNorm |-> 0, wNorm |-> 0, sum |-> 0, upd |-> << >>]

\* the process of the engine: Shared bound to the portable kernel
PortableSimd ==
    [host |-> [GOOS |-> "linux", GOARCH |-> "amd64", HasAVX512 |-> FALSE,
               HasAVX512F |-> FALSE, HasAVX512DQ |-> FALSE],
     Shared |-> "generic", phase |-> "bound", calls |-> 0, op |-> "none"]

\* no call in progress: empty pool, wait group at zero, no goroutine
SchedIdle ==
    /\ pc = "idle"
    /\ call = [op |-> "none", a |-> << >>, learn |-> FALSE, A |-> << >>]
    /\ jStart = 0
    /\ tokens = 0
    /\ wgCount = 0
    /\ workers = {}
    /\ ref = NoRef
    /\ score = NoScore
    /\ race = NoRace
    /\ pool = NoPool
    /\ kern = NoKern
    /\ simd = PortableSimd

Init ==
    /\ state = "new"
    /\ err = NoErr
    /\ rho = Zero
    /\ alpha = Zero
    /\ beta = Zero
    /\ M = 0
    /\ W = << >>
    /\ T = << >>
    /\ last = NoCall
    /\ ncalls = 0
    /\ crashed = FALSE
    /\ args = NoArgs
    /\ poolCap = 1
    /\ batchSize = DefaultBatchSize
    /\ SchedIdle

\* variant: beta is tested before alpha
validationErrorBetaFirst(r, al, b) ==
    IF RatLT(r, Zero) \/ RatGT(r, One) THEN [param |-> "rho", value |-> r]
    ELSE IF ~RatGT(b, Zero) \/ RatGT(b, One) THEN [param |-> "beta", value |-> b]
    ELSE IF ~RatGT(al, Zero) THEN [param |-> "alpha", value |-> al]
    ELSE NoErr

\* the first violated bound, in the order the constructor tests them
validationError(r, al, b) ==
    IF RatLT(r, Zero) \/ RatGT(r, One) THEN [param |-> "rho", value |-> r]
    ELSE IF ~RatGT(al, Zero) THEN [param |-> "alpha", value |-> al]
    ELSE IF ~RatGT(b, Zero) \/ RatGT(b, One) THEN [param |-> "beta", value |-> b]
    ELSE NoErr

NewFuzzyART ==
    /\ state = "new"
    /\ \E inputLen \in InputLens, r \in RhoVals, al \in AlphaVals, b \in BetaVals :
          LET e == validationError(r, al, b)
          IN  /\ args' = [inputLen |-> inputLen, rho |-> r, alpha |-> al, beta |-> b]
              /\ IF e.param # ""
                 THEN /\ state' = "err"
                      /\ err' = e
                      /\ UNCHANGED <<rho, alpha, beta, M>>
                 ELSE /\ state' = "open"
                      /\ err' = NoErr
                      /\ rho' = r
                      /\ alpha' = al
                      /\ beta' = b
                      /\ M' = inputLen
    /\ W' = << >>
    /\ T' = << >>
    /\ UNCHANGED <<last, ncalls, crashed>>
    /\ UNCHANGED svars

Callable == state \in {"open", "closed"} /\ ~crashed /\ ncalls < MaxCalls

Return(op, a, learn, res) ==
    /\ W' = res.W
    /\ T' = res.T
    /\ last' = [op |-> op, a |-> a, learn |-> learn, A |-> complementCode(a),
                Wpre |-> W, outcome |-> res.outcome, resonance |-> res.resonance,
                categoryIndex |-> res.categoryIndex]
    /\ crashed' = (res.outcome = "panic")
    /\ ncalls' = ncalls + 1
    /\ UNCHANGED <<state, err, rho, alpha, beta, M, args>>

Fit ==
    /\ Callable
    /\ pc = "idle"
    /\ \E a \in Inputs(M) : Return("Fit", a, TRUE, FitResult(a))
    /\ UNCHANGED svars

Predict ==
    /\ Callable
    /\ pc = "idle"
    /\ \E a \in Inputs(M), learn \in BOOLEAN :
          Return("Predict", a, learn, PredictResult(a, learn))
    /\ UNCHANGED svars

\* close(f.workerPool); closing a closed channel panics
Close ==
    /\ state \in {"open", "closed"}
    /\ ~crashed
    /\ state' = "closed"
    /\ crashed' = (state = "closed")
    /\ pc = "idle"
    /\ UNCHANGED <<err, rho, alpha, beta, M, W, T, last, ncalls, args>>
    /\ UNCHANGED svars

Next == NewFuzzyART \/ Fit \/ Predict \/ Close

Spec == Init /\ [][Next]_vars

\* ------------------------------------------------- long runs of Fit calls
\* A constructed engine with one feature, trained by up to MaxFits calls.
DeepInputs == {<<Tenths(1)>>, <<Tenths(5)>>, <<Tenths(6)>>, <<Tenths(9)>>}

DeepInit ==
    /\ state = "open"
    /\ err = NoErr
    /\ rho \in {<<0, 1>>, <<3, 5>>, <<1, 1>>}
    /\ alpha \in {<<1, 100>>, <<1, 1>>}
    /\ beta \in {<<1, 2>>, <<1, 1>>}
    /\ M = 1
    /\ W = << >>
    /\ T = << >>
    /\ last = NoCall
    /\ ncalls = 0
    /\ crashed = FALSE
    /\ args = [inputLen |-> M, rho |-> rho, alpha |-> alpha, beta |-> beta]
    /\ poolCap = 1
    /\ batchSize = DefaultBatchSize
    /\ SchedIdle

FitDeep ==
    /\ state = "open"
    /\ ~crashed
    /\ ncalls < MaxFits
    /\ \E a \in DeepInputs : Return("Fit", a, TRUE, FitResult(a))
    /\ UNCHANGED svars

SpecDeep == DeepInit /\ [][FitDeep]_vars

\* ------------------------------------------- stepwise execution of a call
\* activateCategories on an open engine as the goroutines execute it: the
\* caller runs the dispatch loop, one goroutine per batch scores its categories, releases
\* its token and signals the wait group; the caller passes the barrier,
\* sorts and decides.  The pool capacity (runtime.NumCPU()) and the batch
\* size are drawn small so that several batches and a full pool occur with
\* a handful of categories.
SchedPoolCaps == {1, 2}
SchedBatchSizes == {1, 2}
SchedInputs == {<<Tenths(1)>>, <<Tenths(5)>>, <<Tenths(9)>>}

SchedInit ==
    /\ state = "open"
    /\ err = NoErr
    /\ rho \in {<<3, 5>>, <<1, 1>>}
    /\ alpha = <<1, 100>>
    /\ beta = <<1, 2>>
    /\ M = 1
    /\ W = << >>
    /\ T = << >>
    /\ last = NoCall
    /\ ncalls = 0
    /\ crashed = FALSE
    /\ args = [inputLen |-> M, rho |-> rho, alpha |-> alpha, beta |-> beta]
    /\ poolCap \in SchedPoolCaps
    /\ batchSize \in SchedBatchSizes
    /\ SchedIdle

CanBegin ==
    /\ pc = "idle"
    /\ state = "open"
    /\ ~crashed
    /\ ncalls < MaxSchedCalls

Begin(op, a, learn, r) ==
    /\ call' = [op |-> op, a |-> a, learn |-> learn, A |-> complementCode(a)]
    /\ ref' = r
    /\ pc' = "loop"
    /\ jStart' = 0
    /\ score' = [count |-> [j \in 1..Len(W) |-> 0],
                 writers |-> [k \in 1..Len(T) |-> {}],
                 W0 |-> W]
    /\ UNCHANGED <<state, err, rho, alpha, beta, M, W, T, last, ncalls, crashed, args,
                   poolCap, batchSize, tokens, wgCount, workers,
                   race, pool, kern, simd>>

FitBegin ==
    /\ CanBegin
    /\ \E a \in SchedInputs : Begin("Fit", a, TRUE, FitResult(a))

PredictBegin ==
    /\ CanBegin
    /\ \E a \in SchedInputs : Begin("Predict", a, FALSE, PredictResult(a, FALSE))

\* jEnd of the batch that starts at js
batchEnd(js) == IF js + batchSize > Len(W) THEN Len(W) ELSE js + batchSize

\* variant: the record is addressed without the batch offset
recordSlotNoOffset(startIndex, i) == i

\* u := f.T[startIndex+i]
recordSlot(startIndex, i) == startIndex + i

\* loop test of the dispatch loop, then f.wg.Add(1)
Dispatch ==
    /\ pc = "loop"
    /\ IF jStart < Len(W)
       THEN wgCount' = wgCount + 1 /\ pc' = "acquire"
       ELSE wgCount' = wgCount /\ pc' = "wait"
    /\ UNCHANGED <<state, err, rho, alpha, beta, M, W, T, last, ncalls, crashed, args,
                   poolCap, batchSize, call, jStart, tokens, workers, ref,
                   score, race, pool, kern, simd>>

\* variant: the batch goroutine is started without waiting for a free token
AcquireNoBackpressure ==
    /\ pc = "acquire"
    /\ state = "open"
    /\ tokens' = tokens + 1
    /\ workers' = workers \cup {[start |-> jStart, n |-> batchEnd(jStart) - jStart,
                                 i |-> 0, released |-> FALSE]}
    /\ jStart' = jStart + batchSize
    /\ pc' = "loop"
    /\ UNCHANGED <<state, err, rho, alpha, beta, M, W, T, last, ncalls, crashed, args,
                   poolCap, batchSize, call, wgCount, ref,
                   score, race, pool, kern, simd>>

\* f.workerPool <- struct{}{} blocks while the pool is full; then the batch
\* goroutine is started and the loop variable advances
Acquire ==
    /\ pc = "acquire"
    /\ state = "open"
    /\ tokens < poolCap
    /\ tokens' = tokens + 1
    /\ workers' = workers \cup {[start |-> jStart, n |-> batchEnd(jStart) - jStart,
                                 i |-> 0, released |-> FALSE]}
    /\ jStart' = jStart + batchSize
    /\ pc' = "loop"
    /\ UNCHANGED <<state, err, rho, alpha, beta, M, W, T, last, ncalls, crashed, args,
                   poolCap, batchSize, call, wgCount, ref,
                   score, race, pool, kern, simd>>

\* one iteration of the loop of categoryChoice
WorkerScore ==
    \E w \in workers :
        /\ w.i < w.n
        /\ LET k == recordSlot(w.start, w.i) + 1
           IN  T' = [T EXCEPT ![k] = categoryChoice(call.A, T[k], w.start + w.i)]
        /\ workers' = (workers \ {w}) \cup {[w EXCEPT !.i = w.i + 1]}
        /\ LET k == recordSlot(w.start, w.i) + 1
           IN  score' = [score EXCEPT !.count[w.start + w.i + 1] = @ + 1,
                                      !.writers[T[k].addr + 1] = @ \cup {w.start}]
        /\ UNCHANGED <<state, err, rho, alpha, beta, M, W, last, ncalls, crashed, args,
                       poolCap, batchSize, pc, call, jStart, tokens, wgCount, ref,
                       race, pool, kern, simd>>

\* variant: the goroutine ends without giving its token back
WorkerReleaseKeepsToken ==
    \E w \in workers :
        /\ w.i = w.n
        /\ ~w.released
        /\ workers' = (workers \ {w}) \cup {[w EXCEPT !.released = TRUE]}
        /\ UNCHANGED <<state, err, rho, alpha, beta, M, W, T, last, ncalls, crashed, args,
                       poolCap, batchSize, pc, call, jStart, tokens, wgCount, ref,
                       score, race, pool, kern, simd>>

\* deferred: <-f.workerPool
WorkerRelease ==
    \E w \in workers :
        /\ w.i = w.n
        /\ ~w.released
        /\ tokens > 0
        /\ tokens' = tokens - 1
        /\ workers' = (workers \ {w}) \cup {[w EXCEPT !.released = TRUE]}
        /\ UNCHANGED <<state, err, rho, alpha, beta, M, W, T, last, ncalls, crashed, args,
                       poolCap, batchSize, pc, call, jStart, wgCount, ref,
                       score, race, pool, kern, simd>>

\* deferred: f.wg.Done(), after which the goroutine is gone
WorkerDone ==
    \E w \in workers :
        /\ w.released
        /\ wgCount' = wgCount - 1
        /\ workers' = workers \ {w}
        /\ UNCHANGED <<state, err, rho, alpha, beta, M, W, T, last, ncalls, crashed, args,
                       poolCap, batchSize, pc, call, jStart, tokens, ref,
                       score, race, pool, kern, simd>>

\* variant: the caller goes on without waiting for the batch goroutines
BarrierNoWait ==
    /\ pc = "wait"
    /\ pc' = "decide"
    /\ UNCHANGED <<state, err, rho, alpha, beta, M, W, T, last, ncalls, crashed, args,
                   poolCap, batchSize, call, jStart, tokens, wgCount, workers, ref,
                   score, race, pool, kern, simd>>

\* f.wg.Wait() returns once the counter is zero
Barrier ==
    /\ pc = "wait"
    /\ wgCount = 0
    /\ pc' = "decide"
    /\ UNCHANGED <<state, err, rho, alpha, beta, M, W, T, last, ncalls, crashed, args,
                   poolCap, batchSize, call, jStart, tokens, wgCount, workers, ref,
                   score, race, pool, kern, simd>>

\* what Fit/Predict do with the sorted records Ts
afterActivation(Ts, A, learn) ==
    IF ~learn
    THEN IF Len(Ts) = 0
         THEN [Panic EXCEPT !.T = Ts]
         ELSE [W |-> W, T |-> Ts,
               resonance |-> resonance(Ts[1].fiNorm, SumFloat64(A)),
               categoryIndex |-> Ts[1].j, outcome |-> "ok"]
    ELSE resonateOrReset(Ts, A)

\* f.sortCategoriesByActivation(), then the decision and the return
Decide ==
    /\ pc = "decide"
    /\ Return(call.op, call.a, call.learn,
              afterActivation(sortCategoriesByActivation(T), call.A, call.learn))
    /\ pc' = "idle"
    /\ UNCHANGED <<poolCap, batchSize, call, jStart, tokens, wgCount, workers, ref,
                   score, race, pool, kern, simd>>

SchedNext ==
    \/ FitBegin \/ PredictBegin
    \/ Dispatch \/ Acquire
    \/ WorkerScore \/ WorkerRelease \/ WorkerDone
    \/ Barrier \/ Decide

SpecSched == SchedInit /\ [][SchedNext]_vars

\* the scheduler runs every goroutine that can take a step
SchedFairness ==
    /\ WF_vars(Dispatch) /\ WF_vars(Acquire)
    /\ WF_vars(WorkerScore) /\ WF_vars(WorkerRelease) /\ WF_vars(WorkerDone)
    /\ WF_vars(Barrier) /\ WF_vars(Decide)

SpecSchedFair == SchedInit /\ [][SchedNext]_vars /\ SchedFairness

\* ------------------------------------------------ inputs of any length
\* An engine that is handed vectors whose length may differ from M: the
\* code never reads f.M, so the call runs on whatever it is given.
LenInputs == {<<Tenths(1)>>, <<Tenths(9)>>,
              <<Tenths(1), Tenths(2)>>, <<Tenths(9), Tenths(9)>>}

LenInit ==
    /\ state = "open"
    /\ err = NoErr
    /\ rho \in {<<3, 5>>, <<1, 1>>}
    /\ alpha = <<1, 100>>
    /\ beta \in {<<1, 2>>, <<1, 1>>}
    /\ M \in {1, 2}
    /\ W = << >>
    /\ T = << >>
    /\ last = NoCall
    /\ ncalls = 0
    /\ crashed = FALSE
    /\ args = [inputLen |-> M, rho |-> rho, alpha |-> alpha, beta |-> beta]
    /\ poolCap = 1
    /\ batchSize = DefaultBatchSize
    /\ SchedIdle

FitAnyLen ==
    /\ state = "open"
    /\ ~crashed
    /\ ncalls < MaxCalls
    /\ \E a \in LenInputs : Return("Fit", a, TRUE, FitResult(a))
    /\ UNCHANGED svars

PredictAnyLen ==
    /\ state = "open"
    /\ ~crashed
    /\ ncalls < MaxCalls
    /\ \E a \in LenInputs, learn \in BOOLEAN :
          Return("Predict", a, learn, PredictResult(a, learn))
    /\ UNCHANGED svars

SpecLen == LenInit /\ [][FitAnyLen \/ PredictAnyLen]_vars

\* --------------------------------------------- two external callers
\* Two goroutines of the client each call Fit once on the same engine,
\* after up to MaxTrain ordinary calls.  Nothing in the engine serialises
\* them: each runs complementCode, activateCategories and resonateOrReset
\* on the shared fields W and T.  The steps below are the schedules in
\* which each of the two phases of a call runs without interruption; the
\* program has more schedules than these, never fewer.
RaceInputs == {<<Tenths(1)>>, <<Tenths(5)>>, <<Tenths(9)>>}

Callers == {1, 2}
Other(c) == 3 - c

RaceInit ==
    /\ state = "open"
    /\ err = NoErr
    /\ rho \in {<<3, 5>>, <<1, 1>>}
    /\ alpha = <<1, 100>>
    /\ beta \in {<<1, 2>>, <<1, 1>>}
    /\ M = 1
    /\ W = << >>
    /\ T = << >>
    /\ last = NoCall
    /\ ncalls = 0
    /\ crashed = FALSE
    /\ args = [inputLen |-> M, rho |-> rho, alpha |-> alpha, beta |-> beta]
    /\ poolCap = 1
    /\ batchSize = DefaultBatchSize
    /\ SchedIdle

\* an ordinary Fit before any of the two callers has started
RaceTrain ==
    /\ race.first = 0
    /\ ncalls < MaxTrain
    /\ \E a \in RaceInputs : Return("Fit", a, TRUE, FitResult(a))
    /\ UNCHANGED svars

\* caller c enters Fit: A := f.complementCode(a)
RaceBegin(c) ==
    /\ race.pcs[c] = "idle"
    /\ \E a \in RaceInputs :
          race' = [race EXCEPT
                      !.pcs[c] = "activate",
                      !.a[c] = a,
                      !.base = IF race.first = 0 THEN [W |-> W, T |-> T] ELSE @,
                      !.first = IF race.first = 0 THEN c ELSE @,
                      !.overlap = @ \/ race.pcs[Other(c)] \in {"activate", "decide"}]
    /\ UNCHANGED <<state, err, rho, alpha, beta, M, W, T, last, ncalls, crashed, args,
                   poolCap, batchSize, pc, call, jStart, tokens, wgCount, workers, ref,
                   score, pool, kern, simd>>

\* caller c runs f.activateCategories(A): the shared records are scored
\* against its input and sorted
RaceActivate(c) ==
    /\ race.pcs[c] = "activate"
    /\ T' = activateCategories(complementCode(race.a[c]))
    /\ race' = [race EXCEPT !.pcs[c] = "decide"]
    /\ UNCHANGED <<state, err, rho, alpha, beta, M, W, last, ncalls, crashed, args,
                   poolCap, batchSize, pc, call, jStart, tokens, wgCount, workers, ref,
                   score, pool, kern, simd>>

\* caller c runs f.resonateOrReset(A) on the shared records as they are now
\* and returns
RaceDecide(c) ==
    /\ race.pcs[c] = "decide"
    /\ LET r == resonateOrReset(T, complementCode(race.a[c]))
       IN  /\ W' = r.W
           /\ T' = r.T
           /\ race' = [race EXCEPT
                          !.pcs[c] = "done",
                          !.res[c] = [resonance |-> r.resonance,
                                      categoryIndex |-> r.categoryIndex,
                                      outcome |-> r.outcome]]
    /\ UNCHANGED <<state, err, rho, alpha, beta, M, last, ncalls, crashed, args,
                   poolCap, batchSize, pc, call, jStart, tokens, wgCount, workers, ref,
                   score, pool, kern, simd>>

RaceNext ==
    \/ RaceTrain
    \/ \E c \in Callers : RaceBegin(c)
    \/ \E c \in Callers : RaceActivate(c)
    \/ \E c \in Callers : RaceDecide(c)

SpecRace == RaceInit /\ [][RaceNext]_vars

\* ------------------------------------------------ pool-based variants
\* The earlier engines (unnamed/part_000 Train/Infer, unnamed/part_006
\* Fit/Predict) take one scratch buffer per category from a sync.Pool
\* while scoring and give them back in a deferred recover.  pool.out counts
\* the buffers taken and not given back, pool.got[j] and pool.put[j] the
\* Get and Put of the buffer of category j-1 in the call in progress.  The
\* decision on the scored categories is the rule of resonateOrReset.
PoolInputs == {<<Tenths(1)>>, <<Tenths(9)>>}

PoolInit ==
    /\ state = "open"
    /\ err = NoErr
    /\ rho = <<3, 5>>
    /\ alpha = <<1, 100>>
    /\ beta \in {<<1, 2>>, <<1, 1>>}
    /\ M = 1
    /\ W = << >>
    /\ T = << >>
    /\ last = NoCall
    /\ ncalls = 0
    /\ crashed = FALSE
    /\ args = [inputLen |-> M, rho |-> rho, alpha |-> alpha, beta |-> beta]
    /\ poolCap = 1
    /\ batchSize = DefaultBatchSize
    /\ SchedIdle

\* variables a step of the pool-based call leaves alone besides pool
pvars == <<poolCap, batchSize, pc, call, jStart, tokens, wgCount, workers, ref,
           score, race, kern, simd>>

\* the call starts: the lists of the call have one slot per category
PoolBegin ==
    /\ pool.pc = "idle"
    /\ ~crashed
    /\ ncalls < MaxPoolCalls
    /\ \E op \in {"Fit", "Predict"}, a \in PoolInputs, learn \in BOOLEAN :
          /\ op = "Fit" => learn
          /\ pool' = [pool EXCEPT !.pc = "score", !.op = op, !.a = a, !.learn = learn,
                                  !.pre = pool.out,
                                  !.got = [j \in 1..Len(W) |-> 0],
                                  !.put = [j \in 1..Len(W) |-> 0],
                                  !.i = 0]
    /\ UNCHANGED <<state, err, rho, alpha, beta, M, W, T, last, ncalls, crashed, args>>
    /\ UNCHANGED pvars

\* a batch goroutine takes the buffer of one category: m.fiPool.Get()
PoolGet ==
    /\ pool.pc = "score"
    /\ \E j \in 1..Len(pool.got) :
          /\ pool.got[j] = 0
          /\ pool' = [pool EXCEPT !.got[j] = 1, !.out = @ + 1]
    /\ UNCHANGED <<state, err, rho, alpha, beta, M, W, T, last, ncalls, crashed, args>>
    /\ UNCHANGED pvars

\* the exit path of a call
pathOf(res, learn, n) ==
    IF res.outcome = "panic" THEN "panic"
    ELSE IF ~learn THEN "infer"
    ELSE IF Len(res.W) > n THEN "create" ELSE "reinforce"

\* variant: the inference-only path returns without the recover
PoolDecideInferSkipsRecover ==
    /\ pool.pc = "score"
    /\ \A j \in 1..Len(pool.got) : pool.got[j] = 1
    /\ LET res == IF pool.op = "Fit" THEN FitResult(pool.a)
                  ELSE PredictResult(pool.a, pool.learn)
       IN  /\ Return(pool.op, pool.a, pool.learn, res)
           /\ pool' = [pool EXCEPT !.pc = IF pool.learn THEN "recover" ELSE "idle",
                                   !.paths = @ \cup {pathOf(res, pool.learn, Len(W))}]
    /\ UNCHANGED pvars

\* m.wg.Wait() has returned; the call decides (or panics reading W[jList[0]]
\* of an empty matrix) and its deferred recover is due
PoolDecide ==
    /\ pool.pc = "score"
    /\ \A j \in 1..Len(pool.got) : pool.got[j] = 1
    /\ LET res == IF pool.op = "Fit" THEN FitResult(pool.a)
                  ELSE PredictResult(pool.a, pool.learn)
       IN  /\ Return(pool.op, pool.a, pool.learn, res)
           /\ pool' = [pool EXCEPT !.pc = "recover",
                                   !.paths = @ \cup {pathOf(res, pool.learn, Len(W))}]
    /\ UNCHANGED pvars

\* one iteration of the loop of recover: m.fiPool.Put(fi)
PoolPut ==
    /\ pool.pc = "recover"
    /\ pool.i < Len(pool.got)
    /\ pool' = [pool EXCEPT !.put[pool.i + 1] = @ + 1, !.out = @ - 1, !.i = @ + 1]
    /\ UNCHANGED <<state, err, rho, alpha, beta, M, W, T, last, ncalls, crashed, args>>
    /\ UNCHANGED pvars

\* recover is through; the call returns (or the panic goes on)
PoolReturn ==
    /\ pool.pc = "recover"
    /\ pool.i = Len(pool.got)
    /\ pool' = [pool EXCEPT !.pc = "idle"]
    /\ UNCHANGED <<state, err, rho, alpha, beta, M, W, T, last, ncalls, crashed, args>>
    /\ UNCHANGED pvars

PoolNext == PoolBegin \/ PoolGet \/ PoolDecide \/ PoolPut \/ PoolReturn

SpecPool == PoolInit /\ [][PoolNext]_vars

\* ------------------------------------------------ vector kernels by backend
\* The three implementations of the Provider interface, each called once on
\* slices of the same length.  Elements are small integers; a slice of length
\* n occupies n cells and the cells after it belong to someone else: what a
\* read of them yields is not determined by the program (junk).
Backends == {"generic", "avx512", "accelerate"}

MaxKernelLen == 17

JunkValues == {0, 4}

KernelVector(n, p) == [i \in 1..n |-> ((i * p) % 5) + 1]

\* align64: size rounded up to a multiple of 8
align64(size) == ((size + 7) \div 8) * 8

\* the n cells starting at &arr[0]
Memory(arr, n, junk) == [i \in 1..n |-> IF i <= Len(arr) THEN arr[i] ELSE junk]

RECURSIVE SumRange(_, _, _)
SumRange(mem, lo, hi) ==
    IF hi < lo THEN 0 ELSE SumRange(mem, lo, hi - 1) + mem[hi]

\* C kernel: blocks of 16 cells, then the remaining cells one by one, n cells
\* in all; every cell i < n of the output is stored
avx512_fuzzy_intersection_norm(n, memA, memW) ==
    LET end  == n \div 16
        mins == [i \in 1..n |-> Min(memA[i], memW[i])]
    IN  [out     |-> mins,
         written |-> 0..(n - 1),
         fiNorm  |-> SumRange(mins, 1, end * 16) + SumRange(mins, end * 16 + 1, n),
         wNorm   |-> SumRange(memW, 1, end * 16) + SumRange(memW, end * 16 + 1, n)]

avx512_sum(n, mem) ==
    LET end == n \div 16
    IN  SumRange(mem, 1, end * 16) + SumRange(mem, end * 16 + 1, n)

\* AVX512.FuzzyIntersectionNorm: the C kernel is handed align64(len(A)) as n
AVX512FuzzyIntersectionNorm(A, w, junk) ==
    LET alignedSize == align64(Len(A))
    IN  avx512_fuzzy_intersection_norm(alignedSize, Memory(A, alignedSize, junk),
                                       Memory(w, alignedSize, junk))

\* AVX512.SumFloat64
AVX512SumFloat64(arr, junk) ==
    LET alignedSize == align64(Len(arr))
    IN  avx512_sum(alignedSize, Memory(arr, alignedSize, junk))

\* vDSP_vminD over n cells, vDSP_sveD of the minima and of w over n cells
accelerate_fuzzy_intersection_norm(n, memA, memW) ==
    LET mins == [i \in 1..n |-> Min(memA[i], memW[i])]
    IN  [out |-> mins, written |-> 0..(n - 1),
         fiNorm |-> SumRange(mins, 1, n), wNorm |-> SumRange(memW, 1, n)]

accelerate_sum(n, mem) == SumRange(mem, 1, n)

\* Accelerate.FuzzyIntersectionNorm: the C function is handed len(A) as n
AccelerateFuzzyIntersectionNorm(A, w, junk) ==
    accelerate_fuzzy_intersection_norm(Len(A), Memory(A, Len(A), junk),
                                       Memory(w, Len(A), junk))

\* Accelerate.SumFloat64
AccelerateSumFloat64(arr, junk) ==
    accelerate_sum(Len(arr), Memory(arr, Len(arr), junk))

\* generic.FuzzyIntersectionNorm on a zeroed output slice of len(A)
GenericFuzzyIntersectionNorm(A, w) ==
    LET r == FuzzyIntersectionNorm(A, w, [i \in 1..Len(A) |-> 0])
    IN  [out |-> r.fi, written |-> 0..(Len(A) - 1),
         fiNorm |-> r.fiNorm, wNorm |-> r.wNorm]

\* C kernel of the AVX-512 backend: blocks of 8 cells, then the remaining
\* cells one by one, length cells in all, each set to
\* beta*fi[i] + (1-beta)*weights[i]
avx512_update_fuzzy_weights(weights, fi, b, length) ==
    [i \in 1..length |-> (b[1] * fi[i] + (b[2] - b[1]) * weights[i]) \div b[2]]

\* AVX512.UpdateFuzzyWeights: the C kernel is handed align64(len(W)) as length
AVX512UpdateFuzzyWeights(Wj, fi, b, junk) ==
    LET alignedSize == align64(Len(Wj))
    IN  avx512_update_fuzzy_weights(Memory(Wj, alignedSize, junk),
                                    Memory(fi, alignedSize, junk), b, alignedSize)

\* C function of the Accelerate backend: vDSP_vsmulD stores beta*fi in
\* weights, then vDSP_vsmaD stores weights*(1-beta) + weights in weights
accelerate_update_fuzzy_weights(weights, fi, b, length) ==
    LET scaled == [i \in 1..length |-> (b[1] * fi[i]) \div b[2]]
    IN  [i \in 1..length |-> ((b[2] - b[1]) * scaled[i]) \div b[2] + scaled[i]]

\* Accelerate.UpdateFuzzyWeights: the C function is handed len(weights)
AccelerateUpdateFuzzyWeights(Wj, fi, b, junk) ==
    accelerate_update_fuzzy_weights(Memory(Wj, Len(Wj), junk),
                                    Memory(fi, Len(Wj), junk), b, Len(Wj))

\* Shared.UpdateFuzzyWeights on the chosen backend: the cells starting at
\* &W[0] after the call
ProviderUpdateFuzzyWeights(backend, Wj, fi, b, junk) ==
    CASE backend = "generic"    -> UpdateFuzzyWeights(Wj, fi, b)
      [] backend = "avx512"     -> AVX512UpdateFuzzyWeights(Wj, fi, b, junk)
      [] backend = "accelerate" -> AccelerateUpdateFuzzyWeights(Wj, fi, b, junk)

\* number of cells of each argument the backend works on for slices of
\* length n
ProviderCells(backend, n) == IF backend = "avx512" THEN align64(n) ELSE n

\* the wrappers of the two cgo backends take &A[0], &w[0], &arr[0], &W[0]:
\* index out of range on an empty slice
WrapperPanics(backend, n) == backend \in {"avx512", "accelerate"} /\ n = 0

\* weights and intersections of the update, in quarters of the unit of A and w
Quad(v) == [i \in 1..Len(v) |-> 4 * v[i]]

\* Shared.FuzzyIntersectionNorm on the chosen backend
ProviderFuzzyIntersectionNorm(backend, A, w, junk) ==
    CASE backend = "generic"    -> GenericFuzzyIntersectionNorm(A, w)
      [] backend = "avx512"     -> AVX512FuzzyIntersectionNorm(A, w, junk)
      [] backend = "accelerate" -> AccelerateFuzzyIntersectionNorm(A, w, junk)

\* Shared.SumFloat64 on the chosen backend
ProviderSumFloat64(backend, arr, junk) ==
    CASE backend = "generic"    -> SumFloat64(arr)
      [] backend = "avx512"     -> AVX512SumFloat64(arr, junk)
      [] backend = "accelerate" -> AccelerateSumFloat64(arr, junk)

\* variables a kernel call leaves alone
kvars == <<state, err, rho, alpha, beta, M, W, T, last, ncalls, crashed, args,
           poolCap, batchSize, pc, call, jStart, tokens, wgCount, workers, ref,
           score, race, pool, simd>>

\* no engine; one backend, two slices of one length, one content of the
\* cells behind them
KernelInit ==
    /\ state = "new"
    /\ err = NoErr
    /\ rho = Zero
    /\ alpha = Zero
    /\ beta = Zero
    /\ M = 0
    /\ W = << >>
    /\ T = << >>
    /\ last = NoCall
    /\ ncalls = 0
    /\ crashed = FALSE
    /\ args = NoArgs
    /\ poolCap = 1
    /\ batchSize = DefaultBatchSize
    /\ pc = "idle"
    /\ call = [op |-> "none", a |-> << >>, learn |-> FALSE, A |-> << >>]
    /\ jStart = 0
    /\ tokens = 0
    /\ wgCount = 0
    /\ workers = {}
    /\ ref = NoRef
    /\ score = NoScore
    /\ race = NoRace
    /\ pool = NoPool
    /\ simd = PortableSimd
    /\ \E backend \in Backends, n \in 0..MaxKernelLen, p \in {1, 2}, q \in {2, 3},
          junk \in JunkValues, b \in {<<1, 2>>, <<1, 1>>} :
          kern = [NoKern EXCEPT !.phase = "input", !.backend = backend,
                                !.A = KernelVector(n, p), !.w = KernelVector(n, q),
                                !.beta = b, !.junk = junk]

\* the wrapper fails before the kernel runs
KernelPanic ==
    /\ kern.phase = "input"
    /\ WrapperPanics(kern.backend, Len(kern.A))
    /\ kern' = [kern EXCEPT !.phase = "panicked"]
    /\ UNCHANGED kvars

\* one call of FuzzyIntersectionNorm(A, w, out) with len(out) = len(A)
KernelIntersect ==
    /\ kern.phase = "input"
    /\ ~WrapperPanics(kern.backend, Len(kern.A))
    /\ LET r == ProviderFuzzyIntersectionNorm(kern.backend, kern.A, kern.w, kern.junk)
       IN  kern' = [kern EXCEPT !.phase = "intersected", !.out = r.out,
                                !.written = r.written,
                                !.cells = ProviderCells(kern.backend, Len(kern.A)),
                                !.fiNorm = r.fiNorm, !.wNorm = r.wNorm]
    /\ UNCHANGED kvars

\* one call of SumFloat64(A)
KernelSum ==
    /\ kern.phase = "input"
    /\ ~WrapperPanics(kern.backend, Len(kern.A))
    /\ kern' = [kern EXCEPT !.phase = "summed",
                            !.cells = ProviderCells(kern.backend, Len(kern.A)),
                            !.sum = ProviderSumFloat64(kern.backend, kern.A, kern.junk)]
    /\ UNCHANGED kvars

\* one call of UpdateFuzzyWeights(W, fi, beta) with W = 4*w and fi = 4*A
KernelUpdate ==
    /\ kern.phase = "input"
    /\ ~WrapperPanics(kern.backend, Len(kern.w))
    /\ LET r == ProviderUpdateFuzzyWeights(kern.backend, Quad(kern.w), Quad(kern.A),
                                           kern.beta, 4 * kern.junk)
       IN  kern' = [kern EXCEPT !.phase = "updated", !.upd = r,
                                !.written = 0..(Len(r) - 1),
                                !.cells = ProviderCells(kern.backend, Len(kern.w))]
    /\ UNCHANGED kvars

KernelNext == KernelPanic \/ KernelIntersect \/ KernelSum \/ KernelUpdate

SpecKernel == KernelInit /\ [][KernelNext]_vars

\* --------------------------------------------------------- kernel selection
\* Package simd of one process on one host: init binds Shared once, the
\* engine calls the three operations through it.
MaxSimdCalls == 2

\* GOOS, GOARCH and the three flags of cpu.X86 read by hasAVX512; the flags
\* are false on a host that is not x86
Hosts ==
    {[GOOS |-> os, GOARCH |-> "amd64", HasAVX512 |-> a, HasAVX512F |-> f,
      HasAVX512DQ |-> dq] :
        os \in {"linux", "darwin", "windows"}, a \in BOOLEAN, f \in BOOLEAN,
        dq \in BOOLEAN}
    \cup
    {[GOOS |-> os, GOARCH |-> "arm64", HasAVX512 |-> FALSE, HasAVX512F |-> FALSE,
      HasAVX512DQ |-> FALSE] : os \in {"linux", "darwin", "windows"}}

\* variant: the foundation flag alone decides
hasAVX512OnlyF(h) == h.HasAVX512F

hasAVX512(h) == h.HasAVX512 /\ h.HasAVX512F /\ h.HasAVX512DQ

\* the build constraints of the two files that define GetProvider
GetProviderDefined(h) ==
    h.GOARCH = "amd64" \/ (h.GOOS = "darwin" /\ h.GOARCH = "arm64")

\* GetProvider of the file built for the host
GetProvider(h) ==
    IF h.GOARCH = "amd64"
    THEN IF hasAVX512(h) THEN "avx512" ELSE "nil"
    ELSE "accelerate"

\* variables package simd leaves alone
selvars == <<state, err, rho, alpha, beta, M, W, T, last, ncalls, crashed, args,
             poolCap, batchSize, pc, call, jStart, tokens, wgCount, workers, ref,
             score, race, pool, kern>>

\* a process before the init of package simd, on any host
SelectInit ==
    /\ state = "new"
    /\ err = NoErr
    /\ rho = Zero
    /\ alpha = Zero
    /\ beta = Zero
    /\ M = 0
    /\ W = << >>
    /\ T = << >>
    /\ last = NoCall
    /\ ncalls = 0
    /\ crashed = FALSE
    /\ args = NoArgs
    /\ poolCap = 1
    /\ batchSize = DefaultBatchSize
    /\ pc = "idle"
    /\ call = [op |-> "none", a |-> << >>, learn |-> FALSE, A |-> << >>]
    /\ jStart = 0
    /\ tokens = 0
    /\ wgCount = 0
    /\ workers = {}
    /\ ref = NoRef
    /\ score = NoScore
    /\ race = NoRace
    /\ pool = NoPool
    /\ kern = NoKern
    /\ \E h \in Hosts :
          simd = [host |-> h, Shared |-> "nil", phase |-> "unbound", calls |-> 0,
                  op |-> "none"]

\* init of package simd: Shared = GetProvider(), the portable kernel if nil
SimdInit ==
    /\ simd.phase = "unbound"
    /\ GetProviderDefined(simd.host)
    /\ LET p == GetProvider(simd.host)
       IN  simd' = [simd EXCEPT !.phase = "bound",
                                !.Shared = IF p = "nil" THEN "generic" ELSE p]
    /\ UNCHANGED selvars

\* the engine calls one operation of simd.Shared
SimdCall ==
    /\ simd.phase = "bound"
    /\ simd.Shared # "nil"
    /\ simd.calls < MaxSimdCalls
    /\ \E op \in {"FuzzyIntersectionNorm", "SumFloat64", "UpdateFuzzyWeights"} :
          simd' = [simd EXCEPT !.calls = @ + 1, !.op = op]
    /\ UNCHANGED selvars

SelectNext == SimdInit \/ SimdCall

SpecSelect == SelectInit /\ [][SelectNext]_vars

\* ------------------------------------------------------------- type sanity
TypeOK ==
    /\ state \in {"new", "err", "open", "closed"}
    /\ Len(T) = Len(W)
    /\ ncalls \in 0..MaxCalls
    /\ \A j \in 1..Len(W) : \A i \in 1..Len(W[j]) : W[j][i] \in 0..Scale

\* ================================================================== claims
\* Quantities of the last call, taken from the matrix before the call.
PreCount == Len(last.Wpre)
PreIdx == 0..(PreCount - 1)

InputNorm == SumFloat64(last.A)
ProtoNorm(j) == SumFloat64(last.Wpre[j + 1])
InterNorm(j) ==
    SumFloat64([i \in 1..Len(last.A) |-> Min(last.A[i], last.Wpre[j + 1][i])])

\* resonance of category j with the input of the last call
ResonanceOfCat(j) ==
    IF InterNorm(j) = 0 /\ InputNorm = 0 THEN One ELSE <<InterNorm(j), InputNorm>>

Passes(j) == RatGE(ResonanceOfCat(j), rho)

\* activation fiNorm/(alpha + wNorm) of j against that of k, cross-multiplied
ActivationDiff(j, k) ==
    LET g == GCD(alpha[2], alpha[1] * Scale)
        n == (alpha[1] * Scale) \div g
        d == alpha[2] \div g
    IN  InterNorm(j) * (n + ProtoNorm(k) * d) - InterNorm(k) * (n + ProtoNorm(j) * d)

\* j comes before k in the priority order
HigherPriority(j, k) ==
    ActivationDiff(j, k) > 0 \/ (ActivationDiff(j, k) = 0 /\ j < k)

LearnCall == last.op \in {"Fit", "Predict"} /\ last.learn /\ last.outcome = "ok"
FitCall == last.op = "Fit" /\ last.outcome = "ok"
Created == LearnCall /\ Len(W) = PreCount + 1
Reinforced == LearnCall /\ Len(W) = PreCount
InferCall == state = "open" /\ last.op = "Predict" /\ ~last.learn

\* C1: Fit reinforces the first category, in priority order (descending
\* activation, ties by ascending index), whose resonance reaches rho and
\* returns that resonance and index; it creates a category only when no
\* category passes.
C1_DecisionRule ==
    (FitCall /\ M > 0) =>
        IF \E j \in PreIdx : Passes(j)
        THEN /\ last.categoryIndex \in PreIdx
             /\ Passes(last.categoryIndex)
             /\ \A j \in PreIdx \ {last.categoryIndex} :
                   Passes(j) => HigherPriority(last.categoryIndex, j)
             /\ RatEq(last.resonance, <<InterNorm(last.categoryIndex), InputNorm>>)
             /\ Len(W) = PreCount
        ELSE /\ Len(W) = PreCount + 1
             /\ last.categoryIndex = PreCount

\* a Fit that reinforced a category ranked behind a rejected one
C1_Witness ==
    /\ FitCall /\ M > 0
    /\ last.categoryIndex \in PreIdx
    /\ Len(W) = PreCount
    /\ \E j \in PreIdx : HigherPriority(j, last.categoryIndex) /\ ~Passes(j)

\* C2: a learning call grows the matrix by one exactly when no category
\* passes vigilance and by zero otherwise; the matrix never shrinks and
\* every existing category keeps its index.
C2_AppendOnly ==
    /\ Len(W) >= PreCount
    /\ LearnCall => Len(W) = PreCount + (IF \E j \in PreIdx : Passes(j) THEN 0 ELSE 1)
    /\ \A j \in PreIdx :
          \/ W[j + 1] = last.Wpre[j + 1]
          \/ Reinforced /\ j = last.categoryIndex

\* a learning call that added a third category
C2_Witness == LearnCall /\ PreCount = 2 /\ Len(W) = 3 /\ last.op = "Predict"

\* C3: a committed category holds the complement-coded input exactly, its
\* index is the former length, and the earlier prototypes are unchanged.
C3_FastCommitment ==
    (FitCall /\ Created) =>
        /\ Len(W[Len(W)]) = 2 * Len(last.a)
        /\ \A i \in 1..Len(last.a) :
              /\ W[Len(W)][i] = last.a[i]
              /\ W[Len(W)][i + Len(last.a)] = Scale - last.a[i]
        /\ last.categoryIndex = PreCount
        /\ SubSeq(W, 1, PreCount) = last.Wpre

\* a Fit that committed a category next to existing ones
C3_Witness == FitCall /\ Created /\ PreCount >= 1 /\ M = 2

\* C4 as stated: a committing call returns resonance 0.
C4_ReturnsZero == Created => RatEq(last.resonance, Zero)

\* C4 amended: a committing call returns the largest resonance among the
\* existing categories, all of which are below rho; it returns 0 when the
\* matrix was empty.
C4_ReturnsMaxRejected ==
    Created =>
        /\ \A j \in PreIdx :
              RatGE(last.resonance, ResonanceOfCat(j)) /\ RatLT(ResonanceOfCat(j), rho)
        /\ PreCount = 0 => RatEq(last.resonance, Zero)
        /\ PreCount > 0 => \E j \in PreIdx : RatEq(last.resonance, ResonanceOfCat(j))

\* a commit after two rejected categories of different resonance
C4_Witness ==
    /\ Created /\ PreCount = 2
    /\ ~RatEq(ResonanceOfCat(0), ResonanceOfCat(1))
    /\ RatGT(last.resonance, Zero)

\* C5: reinforcing category j sets W_j[i] to beta*min(A[i], W_j[i]) +
\* (1-beta)*W_j[i] (W_j as scored), keeps the length and every other prototype.
C5_Reinforcement ==
    (FitCall /\ Reinforced) =>
        /\ last.categoryIndex \in PreIdx
        /\ Len(W[last.categoryIndex + 1]) = Len(last.Wpre[last.categoryIndex + 1])
        /\ \A i \in 1..Len(last.A) :
              beta[2] * W[last.categoryIndex + 1][i] =
                  beta[1] * Min(last.A[i], last.Wpre[last.categoryIndex + 1][i])
                  + (beta[2] - beta[1]) * last.Wpre[last.categoryIndex + 1][i]
        /\ \A j \in PreIdx \ {last.categoryIndex} : W[j + 1] = last.Wpre[j + 1]

\* a slow-learning reinforcement that moved one of two prototypes
C5_Witness ==
    /\ FitCall /\ Reinforced /\ PreCount = 2
    /\ RatLT(beta, One)
    /\ W # last.Wpre

\* C6: Predict(x, false) on a non-empty matrix changes nothing and returns
\* the top-ranked category with its resonance, whatever rho is.
C6_InferenceOnly ==
    (InferCall /\ PreCount > 0) =>
        /\ last.outcome = "ok"
        /\ W = last.Wpre
        /\ last.categoryIndex \in PreIdx
        /\ \A j \in PreIdx \ {last.categoryIndex} : HigherPriority(last.categoryIndex, j)
        /\ RatEq(last.resonance, ResonanceOfCat(last.categoryIndex))

\* an inference whose top-ranked category is below vigilance
C6_Witness ==
    /\ InferCall /\ PreCount = 2 /\ last.outcome = "ok"
    /\ RatLT(last.resonance, rho)

\* C7 as stated: Predict(x, false) on an open engine completes with a result.
C7_InferenceCompletes == InferCall => last.outcome = "ok"

\* C8: Predict(x, true) and Fit(x) return the same result and leave the
\* same matrix, from every engine state and for every input.
C8_PredictLearnIsFit ==
    (state \in {"open", "closed"} /\ ~crashed) =>
        \A a \in Inputs(M) : PredictResult(a, TRUE) = FitResult(a)

\* after a learning Predict, a state where one input would be absorbed
\* (changing a prototype) and another would open a category
C8_Witness ==
    /\ state = "open" /\ ~crashed
    /\ last.op = "Predict" /\ last.learn /\ Len(W) = 2
    /\ \E a \in Inputs(M) : Len(FitResult(a).W) = 3
    /\ \E a \in Inputs(M) : Len(FitResult(a).W) = 2 /\ FitResult(a).W # W

\* C9: the first Fit on a new engine creates category 0, returns index 0
\* and leaves exactly one prototype.
C9_Bootstrap ==
    (state = "open" /\ ncalls = 1 /\ last.op = "Fit") =>
        /\ last.outcome = "ok"
        /\ PreCount = 0
        /\ last.categoryIndex = 0
        /\ W = <<last.A>>

\* a first Fit with the lowest vigilance
C9_Witness ==
    state = "open" /\ ncalls = 1 /\ last.op = "Fit" /\ RatEq(rho, Zero) /\ M = 2

\* the engine of the reference scenario
ScenarioEngine ==
    /\ M = 2 /\ rho = <<9, 10>> /\ alpha = <<1, 100>> /\ beta = <<1, 1>>
    /\ state = "open" /\ last.op = "Fit"

ScenarioFirst == <<Tenths(1), Tenths(2), Tenths(9), Tenths(8)>>

\* C10: with M=2, rho=0.9, alpha=0.01, beta=1: Fit([0.1,0.2]) gives index 0
\* and length 1; again gives resonance 1, index 0, length 1; Fit([0.9,0.9])
\* then meets resonance 0.25 on category 0 and creates category 1.
C10_Scenario ==
    /\ (ScenarioEngine /\ ncalls = 1 /\ last.a = <<Tenths(1), Tenths(2)>>) =>
          /\ last.outcome = "ok" /\ last.categoryIndex = 0
          /\ W = <<ScenarioFirst>>
    /\ (ScenarioEngine /\ ncalls = 2 /\ last.Wpre = <<ScenarioFirst>>
           /\ last.a = <<Tenths(1), Tenths(2)>>) =>
          /\ last.outcome = "ok" /\ last.categoryIndex = 0
          /\ RatEq(last.resonance, One)
          /\ W = <<ScenarioFirst>>
    /\ (ScenarioEngine /\ ncalls = 3 /\ last.Wpre = <<ScenarioFirst>>
           /\ last.a = <<Tenths(9), Tenths(9)>>) =>
          /\ last.outcome = "ok" /\ last.categoryIndex = 1
          /\ T[1].j = 0 /\ 4 * T[1].fiNorm = 2 * Scale
          /\ RatLT(<<T[1].fiNorm, 2 * Scale>>, rho)
          /\ Len(W) = 2

\* the third step of the scenario
C10_Witness ==
    /\ ScenarioEngine /\ ncalls = 3 /\ last.Wpre = <<ScenarioFirst>>
    /\ last.a = <<Tenths(9), Tenths(9)>> /\ Len(W) = 2

\* what Predict(x, false) returns when it follows the last Fit(x) at once
InferAfterFit == PredictResult(last.a, FALSE)

AfterFit == state = "open" /\ ~crashed /\ FitCall

\* C11 as stated: for every configuration, Predict(x, false) right after
\* Fit(x) returns the index Fit returned.
C11_TrainThenInfer ==
    AfterFit =>
        InferAfterFit.outcome = "ok" /\ InferAfterFit.categoryIndex = last.categoryIndex

\* C11 amended: with beta = 1, Predict(x, false) right after Fit(x) returns
\* the index Fit returned.
C11_TrainThenInferFast ==
    (AfterFit /\ RatEq(beta, One)) =>
        InferAfterFit.outcome = "ok" /\ InferAfterFit.categoryIndex = last.categoryIndex

\* a fast-learning Fit that reinforced a category ranked behind a rejected one
C11_Witness ==
    /\ AfterFit /\ RatEq(beta, One)
    /\ Reinforced
    /\ \E j \in PreIdx : HigherPriority(j, last.categoryIndex) /\ ~Passes(j)

\* the bounds on the constructor's arguments
RhoInRange == RatGE(args.rho, Zero) /\ RatGE(One, args.rho)
AlphaInRange == RatGT(args.alpha, Zero)
BetaInRange == RatGT(args.beta, Zero) /\ RatGE(One, args.beta)

\* C14: NewFuzzyART fails exactly when rho, alpha or beta is out of range,
\* naming the first violated parameter (rho, alpha, beta) and its value;
\* otherwise the engine starts empty with the given rho, alpha, beta, which
\* stay as given.
C14_Validation ==
    state # "new" =>
        /\ state = "err" <=> ~(RhoInRange /\ AlphaInRange /\ BetaInRange)
        /\ state = "err" =>
              /\ err = (IF ~RhoInRange THEN [param |-> "rho", value |-> args.rho]
                        ELSE IF ~AlphaInRange THEN [param |-> "alpha", value |-> args.alpha]
                        ELSE [param |-> "beta", value |-> args.beta])
              /\ W = << >> /\ T = << >> /\ ncalls = 0
        /\ state \in {"open", "closed"} =>
              /\ rho = args.rho /\ alpha = args.alpha /\ beta = args.beta
              /\ ncalls = 0 => W = << >>

\* a construction refused for alpha although beta is out of range too
C14_Witness ==
    state = "err" /\ err.param = "alpha" /\ RhoInRange /\ ~BetaInRange

\* C15 as stated: NewFuzzyART with featureCount M <= 0 fails.
C15_RejectsNonPositiveM ==
    (state # "new" /\ args.inputLen <= 0) => state = "err"

\* C16 as stated: after Close no Fit or Predict completes with a result,
\* and the call leaves the matrix unchanged.
C16_ClosedIsTerminal ==
    [][(state = "closed" /\ ncalls' = ncalls + 1) =>
          (last'.outcome # "ok" /\ W' = W)]_vars

\* C17: with rho = 1 a Fit creates a category exactly when its
\* complement-coded input is identical to no existing prototype.
C17_FullVigilance ==
    (RatEq(rho, One) /\ FitCall) =>
        (Created <=> \A j \in PreIdx : last.Wpre[j + 1] # last.A)

\* a Fit at rho = 1 absorbed by the second of two prototypes
C17_Witness ==
    /\ RatEq(rho, One) /\ FitCall /\ PreCount = 2
    /\ Reinforced /\ last.categoryIndex = 1

\* C18: with rho = 0 the matrix never holds more than one category and
\* every Fit returns index 0, reinforcing it once it exists.
C18_ZeroVigilance ==
    RatEq(rho, Zero) =>
        /\ Len(W) <= 1
        /\ FitCall => (last.categoryIndex = 0 /\ (PreCount = 1 => Reinforced))

\* a third call at rho = 0 that moved the only prototype
C18_Witness ==
    /\ RatEq(rho, Zero) /\ FitCall /\ ncalls >= 3
    /\ PreCount = 1 /\ W # last.Wpre

\* C19: every resonance returned by Fit or Predict lies in [0, 1].
C19_ResonanceBound ==
    (last.op \in {"Fit", "Predict"} /\ last.outcome = "ok") =>
        RatGE(last.resonance, Zero) /\ RatGE(One, last.resonance)

\* a call that returned resonance 1 with three categories present
C19_Witness ==
    /\ last.op \in {"Fit", "Predict"} /\ last.outcome = "ok"
    /\ RatEq(last.resonance, One) /\ PreCount = 3

\* C20: every prototype has length 2M and there is exactly one activation
\* record, with a buffer of length 2M, per category.
C20_PrototypeShape ==
    state \in {"open", "closed"} =>
        /\ \A j \in 1..Len(W) : Len(W[j]) = 2 * M
        /\ Len(T) = Len(W)
        /\ \A k \in 1..Len(T) : Len(T[k].fi) = 2 * M

\* three categories of two features each
C20_Witness == state = "open" /\ M = 2 /\ Len(W) = 3 /\ Len(T) = 3

\* C12: the result of a call and the matrix it leaves are the same for
\* every pool capacity, batch size and interleaving of the batch goroutines:
\* they equal the result of the call executed without interleaving.
C12_Determinism ==
    (pc = "idle" /\ call.op # "none" /\ ~crashed) =>
        /\ W = ref.W
        /\ T = ref.T
        /\ last.resonance = ref.resonance
        /\ last.categoryIndex = ref.categoryIndex
        /\ last.outcome = ref.outcome

\* a finished call that scored three categories in two batches through a
\* pool of one token
C12_Witness ==
    /\ pc = "idle" /\ call.op # "none" /\ last.outcome = "ok"
    /\ PreCount = 3 /\ batchSize = 1 /\ poolCap = 2

\* C13: every call runs to its end: the dispatcher blocked on a worker
\* token is released by a finishing worker and the barrier is passed.
C13_Termination == (pc # "idle") ~> (pc = "idle")

\* the dispatcher blocked on a full pool while a goroutine is still scoring
C13_Witness ==
    /\ pc = "acquire" /\ state = "open" /\ tokens = poolCap
    /\ \E w \in workers : w.i < w.n


\* the last call was handed a vector whose length is not M
Mismatched == last.op \in {"Fit", "Predict"} /\ Len(last.a) # M

\* C21: a call whose input length differs from M does not complete
\* normally and leaves the matrix as it was.
C21_MismatchFailsFast ==
    Mismatched => (last.outcome # "ok" /\ W = last.Wpre)

\* what a call returns
ResOf(r) == [resonance |-> r.resonance, categoryIndex |-> r.categoryIndex,
             outcome |-> r.outcome]

\* Fit(x) then Fit(y), one after the other, on the engine the two callers
\* found: the returned values and the final matrix
Sequential(x, y) ==
    LET r1 == FitOn(race.base.W, race.base.T, x)
        r2 == FitOn(r1.W, r1.T, y)
    IN  [W |-> r2.W, resFirst |-> ResOf(r1), resSecond |-> ResOf(r2)]

\* the outcome of the two callers equals caller c's call followed by the other's
EqualsOrder(c) ==
    LET q == Sequential(race.a[c], race.a[Other(c)])
    IN  /\ W = q.W
        /\ race.res[c] = q.resFirst
        /\ race.res[Other(c)] = q.resSecond

BothDone == race.pcs = <<"done", "done">>

\* C22: two Fit calls that run one after the other give the outcome of
\* that sequential order; once the calls overlap nothing ties the outcome
\* to either order, and C22_Witness is a reachable outcome of two
\* overlapping calls that differs from both sequential orders.
C22_SerialOnlyWhenApart ==
    (BothDone /\ ~race.overlap) => EqualsOrder(race.first)

\* both callers returned, and neither the returned values nor the matrix
\* are those of any sequential order
C22_Witness ==
    /\ BothDone /\ race.overlap
    /\ ~EqualsOrder(1) /\ ~EqualsOrder(2)

\* the last call scored the categories and returned
Scored == last.op \in {"Fit", "Predict"} /\ last.outcome = "ok"

\* activation of category j against the input of the last call
ActivationOfCat(j) == activationOf(InterNorm(j), ProtoNorm(j))

\* C23: when scoring ends the records are a permutation of the category
\* indices 0..n-1, each holding the activation of its category, in
\* descending order of activation, records of equal activation in
\* ascending order of index.  (A record appended for a new category
\* follows them.)
C23_PriorityOrder ==
    Scored =>
        /\ Len(T) >= PreCount
        /\ \A j \in PreIdx : \E k \in 1..PreCount : T[k].j = j
        /\ \A k \in 1..PreCount :
              /\ T[k].j \in PreIdx
              /\ T[k].activation = ActivationOfCat(T[k].j)
        /\ \A k \in 1..(PreCount - 1) :
              \/ RatGT(T[k].activation, T[k + 1].activation)
              \/ /\ RatEq(T[k].activation, T[k + 1].activation)
                 /\ T[k].j < T[k + 1].j

\* three categories, the sort moved a later one to the front, two are tied
C23_Witness ==
    /\ Scored /\ PreCount = 3
    /\ T[1].j # 0
    /\ \E k \in 1..2 : RatEq(T[k].activation, T[k + 1].activation)

\* C24: ordering and the vigilance walk start only when no batch goroutine
\* is left; at that moment the batches have covered every category index
\* exactly once and every record holds the score of its category against
\* the input of this call, written in this call.
C24_Barrier ==
    pc = "decide" =>
        /\ workers = {}
        /\ wgCount = 0
        /\ \A j \in 1..Len(W) : score.count[j] = 1
        /\ \A k \in 1..Len(W) :
              /\ score.writers[T[k].addr + 1] # {}
              /\ T[k] = categoryChoice(call.A, T[k], k - 1)

\* the barrier has passed after three categories were scored in two
\* batches by two workers
C24_Witness ==
    /\ pc = "decide" /\ Len(W) = 3 /\ batchSize = 2 /\ poolCap = 2

\* the batch goroutines that have not yet given their token back
Running == {w \in workers : ~w.released}

\* C25: the batch goroutines that were started and have not released their
\* token each hold one token of the pool, so there are never more of them
\* than the capacity of the pool.
C25_BoundedParallelism ==
    /\ Cardinality(Running) = tokens
    /\ tokens <= poolCap

\* the pool is full with two goroutines and the dispatcher has a further
\* batch to start
C25_Witness ==
    /\ poolCap = 2 /\ Cardinality(Running) = 2
    /\ pc = "acquire" /\ jStart < Len(W)

\* the record objects written so far in the call in progress
Written == {x \in 1..Len(score.writers) : score.writers[x] # {}}

\* C26: in the scoring of a call no record (with its intersection buffer)
\* is written by more than one batch goroutine, wherever the sort of an
\* earlier call has left the record, and the matrix is as the call found
\* it until the barrier has passed and the caller decides.
C26_WorkerIsolation ==
    /\ \A x \in 1..Len(score.writers) : Cardinality(score.writers[x]) <= 1
    /\ pc # "idle" => W = score.W0

\* two goroutines have written records of a list that an earlier sort
\* left permuted
C26_Witness ==
    /\ pc \in {"loop", "acquire", "wait"}
    /\ \E k \in 1..Len(T) : T[k].addr # k - 1
    /\ \E x, y \in Written : score.writers[x] # score.writers[y]

\* other leftovers the records could hold for the same matrix: the records
\* in reverse order, records never scored, records filled with foreign values
ReversedT == [k \in 1..Len(T) |-> T[Len(T) + 1 - k]]
FreshT == [k \in 1..Len(T) |-> [NewRecord(Len(W[1])) EXCEPT !.addr = k - 1]]
ForeignT ==
    [k \in 1..Len(T) |->
        [T[k] EXCEPT !.fi = [i \in 1..Len(T[k].fi) |-> Scale],
                     !.fiNorm = Scale, !.wNorm = 0,
                     !.activation = <<Scale, 1>>, !.j = 0]]
Leftovers == {ReversedT, FreshT, ForeignT}

SameOutcome(p, q) ==
    /\ p.W = q.W
    /\ p.resonance = q.resonance
    /\ p.categoryIndex = q.categoryIndex
    /\ p.outcome = q.outcome

\* C27: what Fit and Predict return, and the matrix they leave, depend on
\* the configuration, the matrix and the input only: with any other
\* leftover in the records the call on the same input gives the same.
C27_HistoryIndependence ==
    (state = "open" /\ ~crashed) =>
        \A a \in Inputs(M) : \A T2 \in Leftovers :
            /\ SameOutcome(FitOn(W, T2, a), FitResult(a))
            /\ SameOutcome(PredictOn(W, T2, a, FALSE), PredictResult(a, FALSE))

\* three categories whose records an earlier call left out of index order
C27_Witness ==
    /\ state = "open" /\ ~crashed /\ Len(W) = 3
    /\ T[1].j # 0 /\ T[1].addr # 0
    /\ ReversedT # T

\* C28: on the pool-based engines every buffer taken while scoring is put
\* back exactly once by the time the call is over, whichever way the call
\* ends, so the number of outstanding buffers is what it was before the call.
C28_PoolAccounting ==
    /\ \A j \in 1..Len(pool.got) : pool.put[j] <= pool.got[j] /\ pool.got[j] <= 1
    /\ pool.pc = "idle" =>
          /\ pool.out = pool.pre
          /\ \A j \in 1..Len(pool.got) : pool.got[j] = 1 /\ pool.put[j] = 1

\* calls have ended on the new-category, the reinforcement and the
\* inference-only path, the last of them after scoring two categories
C28_Witness ==
    /\ pool.pc = "idle" /\ Len(pool.got) = 2
    /\ {"create", "reinforce", "infer"} \subseteq pool.paths

\* C29: on every backend and for every length n >= 1, FuzzyIntersectionNorm
\* stores min(A[i], w[i]) in out[i] for exactly the indices i < n and returns
\* the sum of those n minima and the sum of the n elements of w.
KernelLen == Len(kern.A)
C29_IntersectionContract ==
    kern.phase = "intersected" =>
        /\ kern.written = 0..(KernelLen - 1)
        /\ \A i \in 1..KernelLen : kern.out[i] = Min(kern.A[i], kern.w[i])
        /\ kern.fiNorm =
               SumTo([i \in 1..KernelLen |-> Min(kern.A[i], kern.w[i])], KernelLen)
        /\ kern.wNorm = SumTo(kern.w, KernelLen)

\* C30: on every backend and for every length n >= 1, SumFloat64 returns the
\* sum of exactly the n elements of the array.
C30_SumContract ==
    kern.phase = "summed" => kern.sum = SumTo(kern.A, KernelLen)

\* C31: for every beta in (0,1] and every W and fi of equal length, each
\* backend leaves W[i] = beta*fi[i] + (1-beta)*W_old[i] for every i, which is
\* the result of the portable implementation.
C31_UpdateAgreement ==
    kern.phase = "updated" =>
        \A i \in 1..KernelLen :
            /\ kern.beta[2] * kern.upd[i] =
                   kern.beta[1] * 4 * kern.A[i]
                       + (kern.beta[2] - kern.beta[1]) * 4 * kern.w[i]
            /\ kern.upd[i] =
                   UpdateFuzzyWeights(Quad(kern.w), Quad(kern.A), kern.beta)[i]

\* C32: on every backend and for every length n, no kernel operation works
\* on a cell at index >= n of its arguments: it reads n cells of each and
\* writes only indices below n.
C32_MemoryFrame ==
    kern.phase \in {"intersected", "summed", "updated"} =>
        /\ kern.cells <= KernelLen
        /\ kern.written \subseteq 0..(KernelLen - 1)

\* C33: on every backend each kernel operation completes on vectors of
\* length 0, returns sums equal to 0 and modifies nothing.
C33_ZeroLength ==
    (KernelLen = 0 /\ kern.phase # "input") =>
        /\ kern.phase # "panicked"
        /\ kern.fiNorm = 0 /\ kern.wNorm = 0 /\ kern.sum = 0
        /\ kern.written = {}

\* C34: on every host, once package simd is initialized Shared is bound to
\* exactly one implementation and never nil; it is a specialized kernel only
\* on a host that supports it, the portable kernel whenever no specialization
\* matches, and no later operation rebinds it.
Specializations(h) ==
    (IF h.GOARCH = "amd64" /\ h.HasAVX512 /\ h.HasAVX512F /\ h.HasAVX512DQ
     THEN {"avx512"} ELSE {})
    \cup (IF h.GOOS = "darwin" /\ h.GOARCH = "arm64" THEN {"accelerate"} ELSE {})
SelectionOK ==
    simd.phase = "bound" =>
        /\ simd.Shared \in Backends
        /\ simd.Shared = "avx512" =>
              simd.host.GOARCH = "amd64" /\ simd.host.HasAVX512
                  /\ simd.host.HasAVX512F
        /\ simd.Shared = "accelerate" =>
              simd.host.GOOS = "darwin" /\ simd.host.GOARCH = "arm64"
        /\ Specializations(simd.host) = {} => simd.Shared = "generic"
C35_ComplementCoding ==
    (last.op \in {"Fit", "Predict"} /\ Len(last.a) = M) =>
        /\ Len(last.A) = 2 * M
        /\ \A i \in 1..M :
              /\ last.a[i] \in 0..Scale
              /\ last.A[i] = last.a[i]
              /\ last.A[i + M] = Scale - last.a[i]
        /\ SumFloat64(last.A) = M * Scale

\* a call on an input of two different components
C35_Witness ==
    /\ last.op = "Fit" /\ last.outcome = "ok"
    /\ M = 2 /\ Len(last.a) = 2 /\ last.a[1] # last.a[2]

\* C36: the resonance computation never divides a non-zero fiNorm by a zero
\* input norm; when the input norm is zero the intersection norm of every
\* category is zero too and the resonance is 1.
C36_NoDivisionByZero ==
    (last.op \in {"Fit", "Predict"} /\ last.outcome = "ok" /\ Len(last.a) = M) =>
        /\ last.resonance[2] # 0
        /\ \A k \in 1..PreCount :
              /\ ~(T[k].fiNorm # 0 /\ SumFloat64(last.A) = 0)
              /\ SumFloat64(last.A) = 0 =>
                    T[k].fiNorm = 0 /\ last.resonance = One

\* a call whose input norm is zero has scored a category and returned 1
C36_Witness ==
    /\ last.op = "Fit" /\ last.outcome = "ok"
    /\ SumFloat64(last.A) = 0 /\ PreCount = 1 /\ last.resonance = One

\* C37: calling Fit(x) twice in a row returns the same category index both
\* times, and the second call does not create a category.
FitAgain == FitOn(W, T, last.a)
C37_StableRepresentation ==
    (FitCall /\ state = "open") =>
        /\ FitAgain.outcome = "ok"
        /\ FitAgain.categoryIndex = last.categoryIndex
        /\ Len(FitAgain.W) = Len(W)

\* a Fit has shrunk one of three prototypes, and not the oldest
C37_Witness ==
    /\ FitCall /\ state = "open" /\ Reinforced
    /\ PreCount = 3 /\ W # last.Wpre /\ last.categoryIndex > 0

\* C38: with beta = 1 a second consecutive Fit(x) leaves the whole matrix,
\* every prototype value and the length, as the first Fit(x) left it.
C38_FastLearningIdempotent ==
    (FitCall /\ state = "open" /\ beta = One) => FitAgain.W = W

\* with beta = 1 a Fit has shrunk one of two prototypes
C38_Witness ==
    /\ FitCall /\ state = "open" /\ beta = One /\ Reinforced
    /\ PreCount = 2 /\ W # last.Wpre

\* C39: every component of every prototype stays in [0,1], and no call
\* makes a component of an existing prototype larger than it was.
PrototypesInRange ==
    \A j \in 1..Len(W) : \A i \in 1..Len(W[j]) : W[j][i] \in 0..Scale
NeverGrows ==
    /\ Len(W') >= Len(W)
    /\ \A j \in 1..Len(W) :
          /\ Len(W'[j]) = Len(W[j])
          /\ \A i \in 1..Len(W[j]) : W'[j][i] <= W[j][i]
C39_PrototypesOnlyShrink == []PrototypesInRange /\ [][NeverGrows]_vars

\* a call has lowered a component of one of two prototypes
C39_Witness ==
    /\ Reinforced /\ PreCount = 2
    /\ \E j \in 1..PreCount : \E i \in 1..Len(W[j]) : W[j][i] < last.Wpre[j][i]

\* C40: in every configuration, rho = 0 included, and every engine state,
\* the empty matrix included, Fit returns a resonance >= rho exactly when it
\* reinforced an existing category and a resonance < rho exactly when it
\* created one; the returned index is a valid index of the matrix after the
\* call.
Discriminates ==
    /\ RatGE(last.resonance, rho) <=> Reinforced
    /\ RatLT(last.resonance, rho) <=> Created
    /\ last.categoryIndex \in 0..(Len(W) - 1)
C40_ResultDiscriminates == FitCall => Discriminates

\* C40 without the first Fit of an engine with rho = 0: that call creates a
\* category and returns resonance 0, which is rho.
C40_DiscriminatesButBootstrap ==
    FitCall =>
        IF RatEq(rho, Zero) /\ PreCount = 0
        THEN Created /\ RatEq(last.resonance, Zero) /\ last.categoryIndex = 0
        ELSE Discriminates

\* a Fit created a category next to two rejected ones and returned the
\* larger of their resonances
C40_Witness ==
    /\ FitCall /\ Created /\ PreCount = 2
    /\ RatGT(last.resonance, Zero) /\ RatLT(last.resonance, rho)

====
